---- MODULE Spec2Model ----
(***************************************************************************)
(* Model of the invoice processor (src/app.py): the InvoiceExtractor       *)
(* class (header extraction, the cascading line-item matcher, the folder   *)
(* driver, the 3-slot tabular projection), the /debug reconciliation and   *)
(* the /upload handler running on the threaded development server.         *)
(*                                                                         *)
(* Texts are TLA+ strings; a character is a string of length 1.  The       *)
(* regular expressions of the source are sequences of quantified character *)
(* classes and are run by a backtracking matcher with Python's priority    *)
(* order (greedy: longest first, lazy: shortest first, search: leftmost    *)
(* start first).  Decimal numbers are exact rationals [n, d] in lowest     *)
(* terms with d > 0 (binary rounding of float is not modelled).            *)
(***************************************************************************)
EXTENDS Integers, Sequences, FiniteSets, TLC

(***************************************************************************)
(* Strings                                                                 *)
(***************************************************************************)
Ch(s, i) == SubSeq(s, i, i)

Upper == {"A","B","C","D","E","F","G","H","I","J","K","L","M",
          "N","O","P","Q","R","S","T","U","V","W","X","Y","Z"}
Digit == {"0","1","2","3","4","5","6","7","8","9"}
\* the whitespace characters of \s and of str.strip() that texts of the model hold
Space == {" ", "\t", "\n"}

\* a character class: the characters of set, or all the others when neg
Cls(set, neg) == [set |-> set, neg |-> neg]
InCls(c, cls) == (c \in cls.set) # cls.neg

NonSpace   == Cls(Space, TRUE)                       \* \S
WS         == Cls(Space, FALSE)                      \* \s
AnyChar    == Cls({"\n"}, TRUE)                      \* .
DigitComma == Cls(Digit \cup {","}, FALSE)           \* [\d,]
Dot        == Cls({"."}, FALSE)                      \* \.
Digits     == Cls(Digit, FALSE)                      \* \d
UpperCls   == Cls(Upper, FALSE)                      \* [A-Z]
UpperSpaceColon == Cls(Upper \cup Space \cup {":"}, FALSE)   \* [A-Z\s:]
UpperDigitComma == Cls(Upper \cup Digit \cup {","}, FALSE)   \* [A-Z0-9,]

(***************************************************************************)
(* Regular expressions: a sequence of elements, each a character class     *)
(* with a repetition range, a laziness flag and the capture group it lies  *)
(* in (0: none).  Inf stands for "no upper limit": no text of the model is *)
(* that long.                                                              *)
(***************************************************************************)
Inf == 1000

El(cls, min, max, lazy, grp) ==
    [cls |-> cls, min |-> min, max |-> max, lazy |-> lazy, grp |-> grp]
One(cls, g)      == El(cls, 1, 1, FALSE, g)
Opt(cls, g)      == El(cls, 0, 1, FALSE, g)
Star(cls, g)     == El(cls, 0, Inf, FALSE, g)
Plus(cls, g)     == El(cls, 1, Inf, FALSE, g)
LazyPlus(cls, g) == El(cls, 1, Inf, TRUE, g)
Lit(str, g)      == [i \in 1..Len(str) |-> One(Cls({Ch(str, i)}, FALSE), g)]
\* ([\d,]+\.?\d*) as group g
Num(g)           == <<Plus(DigitComma, g), Opt(Dot, g), Star(Digits, g)>>

Fail == <<-1>>

\* how many characters from pos on lie in cls, at most max
RECURSIVE RunLen(_, _, _, _)
RunLen(s, pos, cls, max) ==
    IF max = 0 \/ pos > Len(s) \/ ~InCls(Ch(s, pos), cls) THEN 0
    ELSE 1 + RunLen(s, pos + 1, cls, max - 1)

\* The backtracking matcher: the number of characters each of the elements
\* k.. of re takes when re[k..] matches s from pos on (the first match in
\* priority order), or Fail.  toEnd is a trailing $.  An element that may
\* take min..run characters tries the counts longest first (greedy) or
\* shortest first (lazy); n is the count being tried and rest the match of
\* the elements after it.
RECURSIVE MatchFrom(_, _, _, _, _)
RECURSIVE TryCount(_, _, _, _, _, _, _)
Backtrack(re, k, s, pos, toEnd, n, run, rest) ==
    IF rest # Fail THEN <<n>> \o rest
    ELSE IF (IF re[k].lazy THEN n = run ELSE n = re[k].min) THEN Fail
    ELSE TryCount(re, k, s, pos, toEnd, IF re[k].lazy THEN n + 1 ELSE n - 1, run)

TryCount(re, k, s, pos, toEnd, n, run) ==
    Backtrack(re, k, s, pos, toEnd, n, run, MatchFrom(re, k + 1, s, pos + n, toEnd))

Repeat(re, k, s, pos, toEnd, run) ==
    IF run < re[k].min THEN Fail
    ELSE TryCount(re, k, s, pos, toEnd, IF re[k].lazy THEN re[k].min ELSE run, run)

MatchFrom(re, k, s, pos, toEnd) ==
    IF k > Len(re)
    THEN IF toEnd /\ pos # Len(s) + 1 THEN Fail ELSE <<>>
    ELSE Repeat(re, k, s, pos, toEnd, RunLen(s, pos, re[k].cls, re[k].max))

NoMatch == [ok |-> FALSE, start |-> 0, counts |-> <<>>]

MatchAt(start, c) ==
    IF c = Fail THEN NoMatch ELSE [ok |-> TRUE, start |-> start, counts |-> c]

\* re.match: anchored at the start of s
ReMatch(re, s, toEnd) == MatchAt(1, MatchFrom(re, 1, s, 1, toEnd))

\* re.search: the leftmost start at which re matches.  hits holds the starts
\* at which it matches (and 0 for those at which it does not).
MinOf(set) == CHOOSE x \in set : \A y \in set : x <= y
SearchHits(re, s, toEnd) ==
    {IF MatchFrom(re, 1, s, p, toEnd) # Fail THEN p ELSE 0 : p \in 1..(Len(s) + 1)}
MatchFirst(re, s, toEnd, start) == MatchAt(start, MatchFrom(re, 1, s, start, toEnd))
SearchPick(re, s, toEnd, hits) ==
    IF hits = {} THEN NoMatch ELSE MatchFirst(re, s, toEnd, MinOf(hits))
ReSearch(re, s, toEnd) == SearchPick(re, s, toEnd, SearchHits(re, s, toEnd) \ {0})

RECURSIVE SumTo(_, _)
SumTo(counts, k) == IF k = 0 THEN 0 ELSE counts[k] + SumTo(counts, k - 1)

\* match.group(g): the text the elements of group g took
Group(re, s, m, g) ==
    LET idx   == {k \in 1..Len(re) : re[k].grp = g}
        first == CHOOSE k \in idx : \A j \in idx : k <= j
        last  == CHOOSE k \in idx : \A j \in idx : j <= k
    IN  SubSeq(s, m.start + SumTo(m.counts, first - 1),
                  m.start + SumTo(m.counts, last) - 1)

\* str.strip()
RECURSIVE LStrip(_)
LStrip(s) == IF Len(s) > 0 /\ Ch(s, 1) \in Space THEN LStrip(SubSeq(s, 2, Len(s))) ELSE s
RECURSIVE RStrip(_)
RStrip(s) == IF Len(s) > 0 /\ Ch(s, Len(s)) \in Space
             THEN RStrip(SubSeq(s, 1, Len(s) - 1)) ELSE s
Strip(s) == RStrip(LStrip(s))

\* sub in s
Contains(s, sub) ==
    \E i \in 1..(Len(s) - Len(sub) + 1) : SubSeq(s, i, i + Len(sub) - 1) = sub

\* s.replace(c, '') for a character c
RECURSIVE Remove(_, _)
Remove(s, c) ==
    IF Len(s) = 0 THEN s
    ELSE (IF Ch(s, 1) = c THEN "" ELSE Ch(s, 1)) \o Remove(SubSeq(s, 2, Len(s)), c)

\* text.split('\n')
RECURSIVE SplitLines(_)
SplitLines(text) ==
    IF ~Contains(text, "\n") THEN <<text>>
    ELSE LET p == CHOOSE i \in 1..Len(text) :
                      Ch(text, i) = "\n" /\ \A j \in 1..(i - 1) : Ch(text, j) # "\n"
         IN  <<SubSeq(text, 1, p - 1)>> \o SplitLines(SubSeq(text, p + 1, Len(text)))

(***************************************************************************)
(* Numbers                                                                 *)
(***************************************************************************)
RECURSIVE Gcd(_, _)
Gcd(a, b) == IF b = 0 THEN a ELSE Gcd(b, a % b)
AbsInt(x) == IF x < 0 THEN -x ELSE x
Rat(n, d) == LET g == Gcd(AbsInt(n), d) IN [n |-> n \div g, d |-> d \div g]
Zero == Rat(0, 1)
RAdd(a, b) == Rat(a.n * b.d + b.n * a.d, a.d * b.d)
RSub(a, b) == Rat(a.n * b.d - b.n * a.d, a.d * b.d)
RMul(a, b) == Rat(a.n * b.n, a.d * b.d)
RAbs(a)    == [n |-> AbsInt(a.n), d |-> a.d]
RLt(a, b)  == a.n * b.d < b.n * a.d
RMax(a, b) == IF RLt(a, b) THEN b ELSE a

DigitVal(c) == CASE c = "0" -> 0 [] c = "1" -> 1 [] c = "2" -> 2 [] c = "3" -> 3
                 [] c = "4" -> 4 [] c = "5" -> 5 [] c = "6" -> 6 [] c = "7" -> 7
                 [] c = "8" -> 8 [] c = "9" -> 9

RECURSIVE DigitsVal(_)
DigitsVal(s) == IF Len(s) = 0 THEN 0
                ELSE 10 * DigitsVal(SubSeq(s, 1, Len(s) - 1)) + DigitVal(Ch(s, Len(s)))
RECURSIVE Pow10(_)
Pow10(k) == IF k = 0 THEN 1 ELSE 10 * Pow10(k - 1)

\* float(c) of a text c of digits with at most one dot (a captured group
\* [\d,]+\.?\d* once its commas are gone): ValueError when no digit is left
\* ('' and '.')
NoDigit(c) == \A k \in 1..Len(c) : Ch(c, k) \notin Digit
Decimal(c, p) ==
    Rat(DigitsVal(SubSeq(c, 1, p - 1)) * Pow10(Len(c) - p) + DigitsVal(SubSeq(c, p + 1, Len(c))),
        Pow10(Len(c) - p))
FloatOf(c) ==
    IF Contains(c, ".") THEN Decimal(c, CHOOSE k \in 1..Len(c) : Ch(c, k) = ".")
    ELSE Rat(DigitsVal(c), 1)

\* float(g.replace(',', '')) of a captured group g
FloatRaises(g) == NoDigit(Remove(g, ","))
ToFloat(g) == FloatOf(Remove(g, ","))

\* str.upper()
LowerLetters == "abcdefghijklmnopqrstuvwxyz"
UpperLetters == "ABCDEFGHIJKLMNOPQRSTUVWXYZ"
UpperChar(c) ==
    IF \E i \in 1..Len(LowerLetters) : Ch(LowerLetters, i) = c
    THEN Ch(UpperLetters, CHOOSE i \in 1..Len(LowerLetters) : Ch(LowerLetters, i) = c)
    ELSE c
RECURSIVE ToUpper(_)
ToUpper(s) == IF Len(s) = 0 THEN s
              ELSE UpperChar(Ch(s, 1)) \o ToUpper(SubSeq(s, 2, Len(s)))

\* str.lower()
LowerChar(c) ==
    IF \E k \in 1..Len(UpperLetters) : Ch(UpperLetters, k) = c
    THEN Ch(LowerLetters, CHOOSE k \in 1..Len(UpperLetters) : Ch(UpperLetters, k) = c)
    ELSE c
RECURSIVE ToLower(_)
ToLower(s) == IF Len(s) = 0 THEN s
              ELSE LowerChar(Ch(s, 1)) \o ToLower(SubSeq(s, 2, Len(s)))

\* s.endswith(suffix)
EndsWith(s, suffix) ==
    Len(s) >= Len(suffix) /\ SubSeq(s, Len(s) - Len(suffix) + 1, Len(s)) = suffix

(***************************************************************************)
(* InvoiceExtractor.extract_line_items: the four tiers                     *)
(***************************************************************************)
\* ^(\S+)\s+(.+?)\s+([\d,]+\.?\d*)\s+([\d,]+\.?\d*)\s+([\d,]+\.?\d*)\s+([\d,]+\.?\d*)$
general_pattern ==
    <<Plus(NonSpace, 1), Plus(WS, 0), LazyPlus(AnyChar, 2), Plus(WS, 0)>>
    \o Num(3) \o <<Plus(WS, 0)>> \o Num(4) \o <<Plus(WS, 0)>> \o Num(5)
    \o <<Plus(WS, 0)>> \o Num(6)

\* ^([A-Z]+\s*:\s*EL)\s+([A-Z\s:]+)\s+([\d,]+\.?\d*)\s+([\d,]+\.?\d*)\s+([\d,]+\.?\d*)$
express_fuel_pattern ==
    <<Plus(UpperCls, 1), Star(WS, 1)>> \o Lit(":", 1) \o <<Star(WS, 1)>> \o Lit("EL", 1)
    \o <<Plus(WS, 0), Plus(UpperSpaceColon, 2), Plus(WS, 0)>>
    \o Num(3) \o <<Plus(WS, 0)>> \o Num(4) \o <<Plus(WS, 0)>> \o Num(5)

\* ^([A-Z]+\s*:\s*E[L]?)\s+([A-Z0-9,]+)\s+([\d,]+\.?\d*)\s+([\d,]+\.?\d*)\s+([\d,]+\.?\d*)$
express_alt_pattern ==
    <<Plus(UpperCls, 1), Star(WS, 1)>> \o Lit(":", 1) \o <<Star(WS, 1)>> \o Lit("E", 1)
    \o <<Opt(Cls({"L"}, FALSE), 1)>>
    \o <<Plus(WS, 0), Plus(UpperDigitComma, 2), Plus(WS, 0)>>
    \o Num(3) \o <<Plus(WS, 0)>> \o Num(4) \o <<Plus(WS, 0)>> \o Num(5)

\* ([A-Z\s:]+)\s+([\d,]+\.?\d*)\s+([\d,]+\.?\d*)\s+([\d,]+\.?\d*)
legacy_fuel_pattern ==
    <<Plus(UpperSpaceColon, 1), Plus(WS, 0)>>
    \o Num(2) \o <<Plus(WS, 0)>> \o Num(3) \o <<Plus(WS, 0)>> \o Num(4)

Item(code, desc, qty, price, tax, total) ==
    [item_code |-> code, description |-> desc, quantity |-> qty, unit |-> "",
     price |-> price, tax |-> tax, total |-> total]
NoItem == Item("", "", Zero, Zero, Zero, Zero)

\* what one tier does with a line: "item" (appended, continue), "fall" (go on
\* to the next tier) or "raise" (a ValueError leaves the tier uncaught)
Outcome(out, tier, item) == [out |-> out, tier |-> tier, item |-> item]

\* the check of Pattern 1 without abs(): a total far below quantity * price
\* passes
GeneralCheck_Signed(qty, price, total) ==
    RLt(RSub(total, RMul(qty, price)), RMul(RMul(qty, price), Rat(1, 10)))

\* abs(total - expected_total) < expected_total * 0.1
GeneralCheck(qty, price, total) ==
    LET expected_total == RMul(qty, price)
    IN  RLt(RAbs(RSub(total, expected_total)), RMul(expected_total, Rat(1, 10)))

\* abs(calculated_total - total) < max(total * 0.01, 0.01)
FuelCheck(quantity, price, total) ==
    LET calculated_total == RMul(quantity, price)
    IN  RLt(RAbs(RSub(calculated_total, total)),
            RMax(RMul(total, Rat(1, 100)), Rat(1, 100)))

\* abs(t - (q * p)) < t * 0.01
LegacyCheck(q, p, t) == RLt(RAbs(RSub(t, RMul(q, p))), RMul(t, Rat(1, 100)))

\* Pattern 1, lines 93-117.  The conversions are inside try ... except
\* ValueError: pass, so a group that does not convert lets the line fall
\* through to Pattern 2.
GeneralItem(code, desc, qty, price, tax, total) ==
    IF GeneralCheck(qty, price, total)
    THEN Outcome("item", "general", Item(code, desc, qty, price, tax, total))
    ELSE Outcome("fall", "general", NoItem)
GeneralGroups(g1, g2, g3, g4, g5, g6) ==
    IF FloatRaises(g3) \/ FloatRaises(g4) \/ FloatRaises(g5) \/ FloatRaises(g6)
    THEN Outcome("fall", "general", NoItem)
    ELSE GeneralItem(g1, Strip(g2), ToFloat(g3), ToFloat(g4), ToFloat(g5), ToFloat(g6))
GeneralMatch(line, match) ==
    IF ~match.ok THEN Outcome("fall", "general", NoItem)
    ELSE GeneralGroups(Group(general_pattern, line, match, 1),
                       Group(general_pattern, line, match, 2),
                       Group(general_pattern, line, match, 3),
                       Group(general_pattern, line, match, 4),
                       Group(general_pattern, line, match, 5),
                       Group(general_pattern, line, match, 6))
TryGeneral(line) == GeneralMatch(line, ReMatch(general_pattern, line, TRUE))

\* Pattern 2, lines 125-144.  The conversions are outside any try: a group
\* that does not convert raises ValueError out of extract_line_items.
ExpressItem(item_code, description, quantity, price, total) ==
    IF FuelCheck(quantity, price, total)
    THEN Outcome("item", "express", Item(item_code, description, quantity, price, Zero, total))
    ELSE Outcome("fall", "express", NoItem)
ExpressGroups(g1, g2, g3, g4, g5) ==
    IF FloatRaises(g3) \/ FloatRaises(g4) \/ FloatRaises(g5)
    THEN Outcome("raise", "express", NoItem)
    ELSE ExpressItem(Strip(g1), Strip(g2), ToFloat(g3), ToFloat(g4), ToFloat(g5))
ExpressMatch(line, express_match) ==
    IF ~express_match.ok THEN Outcome("fall", "express", NoItem)
    ELSE ExpressGroups(Group(express_fuel_pattern, line, express_match, 1),
                       Group(express_fuel_pattern, line, express_match, 2),
                       Group(express_fuel_pattern, line, express_match, 3),
                       Group(express_fuel_pattern, line, express_match, 4),
                       Group(express_fuel_pattern, line, express_match, 5))
TryExpress(line) == ExpressMatch(line, ReMatch(express_fuel_pattern, line, TRUE))

\* the description Pattern 2b makes from the item code
AltDescription(item_code) ==
    IF Contains(item_code, "LSD") THEN "LOW SULPHUR DIESEL : EL"
    ELSE IF Contains(item_code, "PETROL") THEN "PETROL : EL"
    ELSE item_code

\* Pattern 2b, lines 152-179; the conversions are outside any try
ExpressAltItem(item_code, quantity, price, total) ==
    IF FuelCheck(quantity, price, total)
    THEN Outcome("item", "express_alt",
                 Item(item_code, AltDescription(item_code), quantity, price, Zero, total))
    ELSE Outcome("fall", "express_alt", NoItem)
ExpressAltGroups(g1, g3, g4, g5) ==
    IF FloatRaises(g3) \/ FloatRaises(g4) \/ FloatRaises(g5)
    THEN Outcome("raise", "express_alt", NoItem)
    ELSE ExpressAltItem(Strip(g1), ToFloat(g3), ToFloat(g4), ToFloat(g5))
ExpressAltMatch(line, express_alt_match) ==
    IF ~express_alt_match.ok THEN Outcome("fall", "express_alt", NoItem)
    ELSE ExpressAltGroups(Group(express_alt_pattern, line, express_alt_match, 1),
                          Group(express_alt_pattern, line, express_alt_match, 3),
                          Group(express_alt_pattern, line, express_alt_match, 4),
                          Group(express_alt_pattern, line, express_alt_match, 5))
TryExpressAlt(line) == ExpressAltMatch(line, ReMatch(express_alt_pattern, line, TRUE))

FuelWords == {"DIESEL", "PETROL", "PARAFFIN", "EL"}

\* qty, price, total out of val1, val2, val3: the first ordering whose product
\* check holds, and the first ordering when none does
LegacyOrder(val1, val2, val3) ==
    IF LegacyCheck(val1, val2, val3) THEN <<val1, val2, val3>>
    ELSE IF LegacyCheck(val2, val3, val1) THEN <<val2, val3, val1>>
    ELSE IF LegacyCheck(val1, val3, val2) THEN <<val1, val3, val2>>
    ELSE <<val1, val2, val3>>

\* any(fuel in desc.upper() for fuel in ['DIESEL', 'PETROL', 'PARAFFIN', 'EL'])
LooksLikeFuel(desc) == \E fuel \in FuelWords : Contains(ToUpper(desc), fuel)

\* Pattern 3, lines 185-216 (re.search, no $); the conversions are outside
\* any try and come before the fuel word test.  A description with a fuel
\* word always gives an item; one without gives nothing.
LegacyItem(desc, o) ==
    IF LooksLikeFuel(desc)
    THEN Outcome("item", "legacy", Item("", desc, o[1], o[2], Zero, o[3]))
    ELSE Outcome("fall", "legacy", NoItem)
LegacyGroups(g1, g2, g3, g4) ==
    IF FloatRaises(g2) \/ FloatRaises(g3) \/ FloatRaises(g4)
    THEN Outcome("raise", "legacy", NoItem)
    ELSE LegacyItem(Strip(g1), LegacyOrder(ToFloat(g2), ToFloat(g3), ToFloat(g4)))
LegacyMatch(line, legacy_match) ==
    IF ~legacy_match.ok THEN Outcome("fall", "legacy", NoItem)
    ELSE LegacyGroups(Group(legacy_fuel_pattern, line, legacy_match, 1),
                      Group(legacy_fuel_pattern, line, legacy_match, 2),
                      Group(legacy_fuel_pattern, line, legacy_match, 3),
                      Group(legacy_fuel_pattern, line, legacy_match, 4))
TryLegacy(line) == LegacyMatch(line, ReSearch(legacy_fuel_pattern, line, FALSE))

\* if not line or 'Item Code' in line or 'Item Description' in line: continue
\* a loop that passes over blank lines only
Skipped_BlankOnly(line) == line = ""

Skipped(line) ==
    line = "" \/ Contains(line, "Item Code") \/ Contains(line, "Item Description")

\* the tiers with the fuel patterns tried before the general one
Tier_FuelFirst(k, line) ==
    CASE k = 1 -> TryExpress(line)
      [] k = 2 -> TryExpressAlt(line)
      [] k = 3 -> TryGeneral(line)
      [] k = 4 -> TryLegacy(line)

\* tier k of the loop body, in the order the code tries them
TierCount == 4
Tier(k, line) ==
    CASE k = 1 -> TryGeneral(line)
      [] k = 2 -> TryExpress(line)
      [] k = 3 -> TryExpressAlt(line)
      [] k = 4 -> TryLegacy(line)

\* the tiers from k on: the first that does not fall through decides, and the
\* line gives nothing ("none") when all fall through
RECURSIVE Cascade(_, _)
Decide(line, k, t) == IF t.out # "fall" THEN t ELSE Cascade(line, k + 1)
Cascade(line, k) ==
    IF k > TierCount THEN Outcome("none", "", NoItem) ELSE Decide(line, k, Tier(k, line))

\* the body of the loop for one line
LoopBody(line) ==
    IF Skipped(line) THEN Outcome("skip", "", NoItem) ELSE Cascade(line, 1)
ProcessLine(raw) == LoopBody(Strip(raw))

\* extract_line_items as a whole: the items of the lines in order, or the
\* ValueError of the first line that raises
RECURSIVE ExtractFrom(_, _, _)
ExtractStep(ls, k, acc, r) ==
    IF r.out = "raise" THEN [raised |-> TRUE, items |-> acc]
    ELSE ExtractFrom(ls, k + 1, IF r.out = "item" THEN Append(acc, r.item) ELSE acc)
ExtractFrom(ls, k, acc) ==
    IF k > Len(ls) THEN [raised |-> FALSE, items |-> acc]
    ELSE ExtractStep(ls, k, acc, ProcessLine(ls[k]))
ExtractLineItems(t) == ExtractFrom(SplitLines(t), 1, <<>>)

(***************************************************************************)
(* InvoiceExtractor.parse_invoice_data                                     *)
(***************************************************************************)
\* (\d{2}-\d{2}-\d{4})
date_pattern ==
    <<El(Digits, 2, 2, FALSE, 1)>> \o Lit("-", 1) \o <<El(Digits, 2, 2, FALSE, 1)>>
    \o Lit("-", 1) \o <<El(Digits, 4, 4, FALSE, 1)>>
\* INV(\d+)
ref_pattern == Lit("INV", 0) \o <<Plus(Digits, 1)>>
\* Total \(Excl\)\s+([\d,]+\.?\d*)
total_excl_pattern == Lit("Total (Excl)", 0) \o <<Plus(WS, 0)>> \o Num(1)
\* Total \(Incl\)\s+([\d,]+\.?\d*)
total_incl_pattern == Lit("Total (Incl)", 0) \o <<Plus(WS, 0)>> \o Num(1)

\* the text of the first group of a match, '' when there is none
GroupOr(re, t, m) == IF m.ok THEN Group(re, t, m, 1) ELSE ""

\* the header fields, lines 38-55; raises when a matched total does not
\* convert (float('') of a total that is only commas)
HeaderFields(date_match, ref, excl_match, excl, incl_match, incl) ==
    [raises        |-> \/ excl_match /\ FloatRaises(excl)
                       \/ incl_match /\ FloatRaises(incl),
     date          |-> date_match,
     our_reference |-> ref,
     total_excl    |-> IF excl_match /\ ~FloatRaises(excl) THEN ToFloat(excl) ELSE Zero,
     total_incl    |-> IF incl_match /\ ~FloatRaises(incl) THEN ToFloat(incl) ELSE Zero]
HeaderMatches(t, date_match, ref_match, total_excl_match, total_incl_match) ==
    HeaderFields(GroupOr(date_pattern, t, date_match),
                 IF ref_match.ok THEN "INV" \o Group(ref_pattern, t, ref_match, 1) ELSE "",
                 total_excl_match.ok, GroupOr(total_excl_pattern, t, total_excl_match),
                 total_incl_match.ok, GroupOr(total_incl_pattern, t, total_incl_match))
ParseHeader(t) ==
    HeaderMatches(t, ReSearch(date_pattern, t, FALSE), ReSearch(ref_pattern, t, FALSE),
                  ReSearch(total_excl_pattern, t, FALSE), ReSearch(total_incl_pattern, t, FALSE))

InvoiceData(filename, h, its) ==
    [filename |-> filename, date |-> h.date, our_reference |-> h.our_reference,
     total_excl |-> h.total_excl, total_incl |-> h.total_incl, items |-> its]

\* the value of parse_invoice_data: <<>> is None (except Exception: return None)
None == <<>>
ParseResult(filename, h, x) ==
    IF h.raises \/ x.raised THEN None ELSE <<InvoiceData(filename, h, x.items)>>
ParseInvoiceData(t, filename) == ParseResult(filename, ParseHeader(t), ExtractLineItems(t))

(***************************************************************************)
(* convert_to_excel_format and debug_extraction.  A cell is a string or a  *)
(* number, tagged with its type.                                           *)
(***************************************************************************)
S(x) == <<"str", x>>
N(x) == <<"num", x>>

\* the slots of a row: range(3)
SlotCount == 3

RECURSIVE SumItems(_, _)
\* sum(item['total'] + item.get('tax', 0) for item in invoice['items'])
SumItems(its, k) ==
    IF k = 0 THEN Zero ELSE RAdd(SumItems(its, k - 1), RAdd(its[k].total, its[k].tax))

\* a total over the projected items only
TotalExpected_Projected(invoice) ==
    SumItems(invoice.items, IF Len(invoice.items) < 3 THEN Len(invoice.items) ELSE 3)
TotalExpected(invoice) == SumItems(invoice.items, Len(invoice.items))

Col(i, name) == "Item " \o ToString(i + 1) \o " " \o name

\* the seven columns of slot i (0-based, as in the loop)
SlotCells(its, i) ==
    IF i < Len(its)
    THEN LET item == its[i + 1]
         IN  (Col(i, "Code") :> S(item.item_code))
             @@ (Col(i, "Description") :> S(item.description))
             @@ (Col(i, "Quantity") :> N(item.quantity))
             @@ (Col(i, "Unit") :> S(item.unit))
             @@ (Col(i, "Price (Ex)") :> N(item.price))
             @@ (Col(i, "Tax") :> N(item.tax))
             @@ (Col(i, "Total Rand") :> N(item.total))
    ELSE (Col(i, "Code") :> S(""))
         @@ (Col(i, "Description") :> S(""))
         @@ (Col(i, "Quantity") :> S(""))
         @@ (Col(i, "Unit") :> S(""))
         @@ (Col(i, "Price (Ex)") :> S(""))
         @@ (Col(i, "Tax") :> S(""))
         @@ (Col(i, "Total Rand") :> S(""))

RECURSIVE Slots(_, _)
Slots(its, n) == IF n = 0 THEN << >> ELSE Slots(its, n - 1) @@ SlotCells(its, n - 1)

ExcelRow(invoice) ==
    ("Filename" :> S(invoice.filename))
    @@ ("Date" :> S(invoice.date))
    @@ ("Our Reference" :> S(invoice.our_reference))
    @@ ("Total Expected" :> N(TotalExpected(invoice)))
    @@ ("Total (Incl)" :> N(invoice.total_incl))
    @@ Slots(invoice.items, SlotCount)

ConvertToExcelFormat(data) == [k \in 1..Len(data) |-> ExcelRow(data[k])]

RDiv(a, b) == Rat(a.n * b.d, a.d * b.n)

\* the difference with its sign
Discrepancy_Signed(invoice) == RSub(TotalExpected(invoice), invoice.total_incl)
\* abs(total_expected - invoice['total_incl'])
Discrepancy(invoice) == RAbs(RSub(TotalExpected(invoice), invoice.total_incl))

\* (discrepancy / invoice['total_incl'] * 100) if invoice['total_incl'] > 0 else 0
DiscrepancyPercent(invoice) ==
    IF RLt(Zero, invoice.total_incl)
    THEN RMul(RDiv(Discrepancy(invoice), invoice.total_incl), Rat(100, 1))
    ELSE Zero

DebugInfo(invoice) ==
    [filename |-> invoice.filename, date |-> invoice.date,
     our_reference |-> invoice.our_reference, total_incl |-> invoice.total_incl,
     total_expected |-> TotalExpected(invoice), discrepancy |-> Discrepancy(invoice),
     discrepancy_percent |-> DiscrepancyPercent(invoice),
     items_found |-> Len(invoice.items), items |-> invoice.items]

DebugSummary(data) ==
    LET debug_data == [k \in 1..Len(data) |-> DebugInfo(data[k])]
    IN  [debug_data |-> debug_data,
         total_invoices |-> Len(debug_data),
         high_discrepancy_count |->
             Cardinality({k \in 1..Len(debug_data) :
                             RLt(Rat(5, 1), debug_data[k].discrepancy_percent)})]

(***************************************************************************)
(* State                                                                   *)
(***************************************************************************)
VARIABLES
    extracted_data,  \* extractor.extracted_data, the batch of invoice records
    text,            \* the text extract_text_from_pdf gave for the document
    pc,              \* where process_folder / parse_invoice_data stands
    lines,           \* text.split('\n') in extract_line_items
    i,               \* the line the loop of extract_line_items is at
    items,           \* the local list items of extract_line_items
    src,             \* history: for each item, the line and tier that made it
    header,          \* the header fields parse_invoice_data has extracted
    invoice_data,    \* what parse_invoice_data returned
    exc,             \* history: the tier whose ValueError left extract_line_items
    excel_data,      \* what convert_to_excel_format returned
    debug_summary,   \* what debug_extraction handed to its template
    folder,          \* the upload folder: file name -> text of the file
    req              \* the upload requests being handled, one thread each

docVars == <<text, pc, lines, i, items, src, header, invoice_data, exc>>
outVars == <<excel_data, debug_summary>>
webVars == <<folder, req>>
vars == <<extracted_data, docVars, outVars, webVars>>

NoHeader == [raises |-> FALSE, date |-> "", our_reference |-> "",
             total_excl |-> Zero, total_incl |-> Zero]

\* the other two groups of variables at rest
DocIdle ==
    /\ text = "" /\ pc = "idle" /\ lines = <<>> /\ i = 1 /\ items = <<>> /\ src = <<>>
    /\ header = NoHeader /\ invoice_data = None /\ exc = "none"
OutIdle == excel_data = <<>> /\ debug_summary = DebugSummary(<<>>)
WebIdle == folder = << >> /\ req = << >>

(***************************************************************************)
(* The texts a document may hold                                           *)
(***************************************************************************)
MaxLines == 2

LinePool == {
    "",
    "Item Description",
    "Item Code DIESEL 20 2 40",
    "A100 Widget Assembly 10 5.00 1.50 51.50",
    "LSD : EL 7 10 1.0 10",
    "LSD : EL 1 10 1.0 10",
    "LSD : EL DIESEL : EL 20 2.5 50",
    "LSD : EL DIESEL 2 3 9",
    "PETROL : E A84 20 2 40",
    "DIESEL 20 2 40",
    "PARAFFIN 40 20 2",
    "PETROL 20 40 2",
    "BOLT 1 2 2",
    "LSD : EL , 20 2 40",
    "LSD : EL DIESEL , 2 40",
    "LSD : EL A84 , 2 40",
    "DIESEL , 2 40",
    "15-03-2024 INV00987 Total (Excl) 1,234.56",
    "Total (Incl) 1,407.40",
    "Total (Incl) ," }

RECURSIVE Join(_, _)
Join(ls, k) == IF k = 1 THEN ls[1] ELSE Join(ls, k - 1) \o "\n" \o ls[k]

\* every text of n lines of the pool
TextsOf(pool, n) == {Join(ls, n) : ls \in [1..n -> pool]}
Texts == UNION {TextsOf(LinePool, n) : n \in 1..MaxLines}

(***************************************************************************)
(* One document through process_folder: Spec                               *)
(***************************************************************************)
DocName == "a.pdf"

Init ==
    /\ extracted_data = <<>>
    /\ text \in Texts
    /\ pc = "start" /\ lines = <<>> /\ i = 1 /\ items = <<>> /\ src = <<>>
    /\ header = NoHeader /\ invoice_data = None /\ exc = "none"
    /\ OutIdle /\ WebIdle

\* process_folder up to "if text:": the batch is reset and an empty text is
\* passed over
ReadDocument ==
    /\ pc = "start"
    /\ extracted_data' = <<>>
    /\ pc' = IF text = "" THEN "done" ELSE "header"
    /\ UNCHANGED <<text, lines, i, items, src, header, invoice_data, exc, outVars, webVars>>

\* parse_invoice_data up to the call of extract_line_items
HeaderDone(h) ==
    IF h.raises
    THEN /\ invoice_data' = None
         /\ pc' = "done"
         /\ UNCHANGED <<header, lines>>
    ELSE /\ header' = h
         /\ lines' = SplitLines(text)
         /\ pc' = "lines"
         /\ UNCHANGED invoice_data
ExtractHeader ==
    /\ pc = "header"
    /\ HeaderDone(ParseHeader(text))
    /\ UNCHANGED <<extracted_data, text, i, items, src, exc, outVars, webVars>>

\* one turn of the loop of extract_line_items; a ValueError of tiers 2, 2b
\* and 3 ends parse_invoice_data with None
LineDone(r) ==
    IF r.out = "raise"
    THEN /\ exc' = r.tier
         /\ invoice_data' = None
         /\ pc' = "done"
         /\ UNCHANGED <<i, items, src>>
    ELSE /\ i' = i + 1
         /\ items' = IF r.out = "item" THEN Append(items, r.item) ELSE items
         /\ src' = IF r.out = "item" THEN Append(src, [line |-> i, tier |-> r.tier]) ELSE src
         /\ UNCHANGED <<exc, invoice_data, pc>>
ExtractLine ==
    /\ pc = "lines" /\ i <= Len(lines)
    /\ LineDone(ProcessLine(lines[i]))
    /\ UNCHANGED <<extracted_data, text, lines, header, outVars, webVars>>

\* the record is built and returned, and process_folder appends it
Assemble ==
    /\ pc = "lines" /\ i > Len(lines)
    /\ invoice_data' = <<InvoiceData(DocName, header, items)>>
    /\ extracted_data' = Append(extracted_data, InvoiceData(DocName, header, items))
    /\ pc' = "done"
    /\ UNCHANGED <<text, lines, i, items, src, header, exc, outVars, webVars>>

Next == ReadDocument \/ ExtractHeader \/ ExtractLine \/ Assemble

Spec == Init /\ [][Next]_vars

(***************************************************************************)
(* A batch, projected and reconciled: SpecProject                          *)
(***************************************************************************)
MaxItems == 4

ProjLines == {
    "A1 Pump 10 50.00 50.00 500.00",
    "DIESEL 20 2 40",
    "Total (Incl) 600.00" }
ProjTexts == UNION {TextsOf(ProjLines, n) : n \in 1..MaxItems}
SecondText == "INV7 DIESEL 1 2 9"

\* the batches process_folder leaves for one document, or for that document
\* and a second one
InitProject ==
    /\ \E t \in ProjTexts :
          \/ extracted_data = ParseInvoiceData(t, "a.pdf")
          \/ extracted_data = ParseInvoiceData(t, "a.pdf") \o ParseInvoiceData(SecondText, "b.pdf")
    /\ DocIdle /\ OutIdle /\ WebIdle

\* /api/data, /results and /download: the rows of the batch
convert_to_excel_format ==
    /\ excel_data' = ConvertToExcelFormat(extracted_data)
    /\ UNCHANGED <<extracted_data, debug_summary, docVars, webVars>>

\* /debug
debug_extraction ==
    /\ debug_summary' = DebugSummary(extracted_data)
    /\ UNCHANGED <<extracted_data, excel_data, docVars, webVars>>

NextProject == convert_to_excel_format \/ debug_extraction

SpecProject == InitProject /\ [][NextProject]_vars

(***************************************************************************)
(* Upload requests on the threaded server: SpecWeb.  Each request runs     *)
(* upload_files in a thread of its own; nothing in the handler or in       *)
(* process_folder takes a lock, so the threads interleave between any two  *)
(* of their file system calls and accesses of extractor.extracted_data.    *)
(* Reading one file, parsing it and appending its record is taken as one   *)
(* step.                                                                   *)
(***************************************************************************)
NumRequests == 2
Requests == 1..NumRequests

\* the file lists a request may carry
Uploads == {<<"a.pdf">>, <<"a.pdf", "b.pdf">>, <<"notes.txt">>}

\* the text of every file request r uploads: an invoice with reference INV<r>
RequestText(r) == "INV" \o ToString(r)

IdleRequest == [pc |-> "idle", files |-> <<>>, uploaded_files |-> <<>>,
                listing |-> <<>>, k |-> 1, status |-> 0]

\* os.listdir: the names in the folder, in any order
Listings(dir) ==
    {p \in [1..Cardinality(DOMAIN dir) -> DOMAIN dir] :
        \A a, b \in 1..Cardinality(DOMAIN dir) : a # b => p[a] # p[b]}

Without(dir, name) == [f \in (DOMAIN dir) \ {name} |-> dir[f]]
With(dir, name, content) == [f \in (DOMAIN dir) \cup {name} |->
                                IF f = name THEN content ELSE dir[f]]

\* the server is fresh, or an earlier upload (number 0) of a.pdf has been
\* processed and its file is still in the folder
InitWeb ==
    /\ \/ folder = << >> /\ extracted_data = <<>>
       \/ /\ folder = With(<< >>, "a.pdf", RequestText(0))
          /\ extracted_data = ParseInvoiceData(RequestText(0), "a.pdf")
    /\ req = [r \in Requests |-> IdleRequest]
    /\ DocIdle /\ OutIdle

\* the loop over listing or files is over: go on with pc next
Advance(q, next) ==
    IF q.k > Len(IF q.pc = "save" THEN q.files ELSE q.listing)
    THEN [q EXCEPT !.pc = next, !.k = 1] ELSE q

\* a request without a 'files' field: 400
UploadNoFiles(r) ==
    /\ req[r].pc = "idle"
    /\ req' = [req EXCEPT ![r] = [@ EXCEPT !.pc = "done", !.status = 400]]
    /\ UNCHANGED <<extracted_data, folder, docVars, outVars>>

\* request.files.getlist('files') and os.listdir(UPLOAD_FOLDER) of the clearing loop
UploadStart(r) ==
    /\ req[r].pc = "idle"
    /\ \E files \in Uploads, listing \in Listings(folder) :
          req' = [req EXCEPT ![r] =
                     Advance([@ EXCEPT !.pc = "clear", !.files = files, !.listing = listing],
                             "save")]
    /\ UNCHANGED <<extracted_data, folder, docVars, outVars>>

\* os.remove of the next listed file; FileNotFoundError (500) when another
\* request has removed it already
RemoveFile(r) ==
    /\ req[r].pc = "clear"
    /\ LET name == req[r].listing[req[r].k]
       IN  IF name \in DOMAIN folder
           THEN /\ folder' = Without(folder, name)
                /\ req' = [req EXCEPT ![r] = Advance([@ EXCEPT !.k = @ + 1], "save")]
           ELSE /\ req' = [req EXCEPT ![r] = [@ EXCEPT !.pc = "done", !.status = 500]]
                /\ UNCHANGED folder
    /\ UNCHANGED <<extracted_data, docVars, outVars>>

\* file.save of the next uploaded file when its name ends in .pdf
\* (secure_filename leaves the names of the model as they are)
SaveFile(r) ==
    /\ req[r].pc = "save"
    /\ LET filename == req[r].files[req[r].k]
       IN  IF EndsWith(ToLower(filename), ".pdf")
           THEN /\ folder' = With(folder, filename, RequestText(r))
                /\ req' = [req EXCEPT ![r] =
                              Advance([@ EXCEPT !.k = @ + 1,
                                                !.uploaded_files = Append(@, filename)],
                                      "check")]
           ELSE /\ req' = [req EXCEPT ![r] = Advance([@ EXCEPT !.k = @ + 1], "check")]
                /\ UNCHANGED folder
    /\ UNCHANGED <<extracted_data, docVars, outVars>>

\* if not uploaded_files: 400; else process_folder starts: self.extracted_data = []
ResetBatch(r) ==
    /\ req[r].pc = "check"
    /\ IF req[r].uploaded_files = <<>>
       THEN /\ req' = [req EXCEPT ![r] = [@ EXCEPT !.pc = "done", !.status = 400]]
            /\ UNCHANGED extracted_data
       ELSE /\ extracted_data' = <<>>
            /\ req' = [req EXCEPT ![r] = [@ EXCEPT !.pc = "list"]]
    /\ UNCHANGED <<folder, docVars, outVars>>

\* os.listdir(folder_path) of process_folder
ListFolder(r) ==
    /\ req[r].pc = "list"
    /\ \E listing \in Listings(folder) :
          req' = [req EXCEPT ![r] =
                     Advance([@ EXCEPT !.pc = "each", !.listing = listing], "return")]
    /\ UNCHANGED <<extracted_data, folder, docVars, outVars>>

\* the text of a file: '' when it cannot be opened (it has been removed)
ExtractTextFromPdf(dir, filename) == IF filename \in DOMAIN dir THEN dir[filename] ELSE ""

\* the records process_folder appends for one file name
RecordsOf(filename, t) ==
    IF EndsWith(ToLower(filename), ".pdf") /\ t # "" THEN ParseInvoiceData(t, filename)
    ELSE <<>>

\* one turn of the loop of process_folder
ProcessFile(r) ==
    /\ req[r].pc = "each"
    /\ extracted_data' = extracted_data \o
           RecordsOf(req[r].listing[req[r].k],
                     ExtractTextFromPdf(folder, req[r].listing[req[r].k]))
    /\ req' = [req EXCEPT ![r] = Advance([@ EXCEPT !.k = @ + 1], "return")]
    /\ UNCHANGED <<folder, docVars, outVars>>

\* the response of a request that processed its folder
UploadReturn(r) ==
    /\ req[r].pc = "return"
    /\ req' = [req EXCEPT ![r] = [@ EXCEPT !.pc = "done", !.status = 200]]
    /\ UNCHANGED <<extracted_data, folder, docVars, outVars>>

NextWeb ==
    \E r \in Requests :
        \/ UploadNoFiles(r) \/ UploadStart(r) \/ RemoveFile(r) \/ SaveFile(r)
        \/ ResetBatch(r) \/ ListFolder(r) \/ ProcessFile(r) \/ UploadReturn(r)

SpecWeb == InitWeb /\ [][NextWeb]_vars

(***************************************************************************)
(* Properties                                                              *)
(***************************************************************************)
\* the loop of extract_line_items has just appended an item for line i - 1
JustAppended ==
    pc = "lines" /\ Len(src) > 0 /\ Len(items) = Len(src) /\ src[Len(src)].line = i - 1
LastLine == Strip(lines[i - 1])
LastItem == items[Len(items)]
LastTier == src[Len(src)].tier

\* a line has the shape of Pattern 1, and of Pattern 2 or 2b
GeneralShape(line) == ReMatch(general_pattern, line, TRUE).ok
FuelShape(line) ==
    ReMatch(express_fuel_pattern, line, TRUE).ok \/ ReMatch(express_alt_pattern, line, TRUE).ok

\* the six fields of Pattern 1 convert and quantity * price is within 10% of
\* the total
GeneralAccepts(g3, g4, g5, g6, qp, total) ==
    /\ ~NoDigit(Remove(g3, ",")) /\ ~NoDigit(Remove(g4, ","))
    /\ ~NoDigit(Remove(g5, ",")) /\ ~NoDigit(Remove(g6, ","))
    /\ 10 * AbsInt(total.n * qp.d - qp.n * total.d) * qp.d < qp.n * total.d * qp.d
GeneralFields(line, m) ==
    [k \in 1..6 |-> IF m.ok THEN Group(general_pattern, line, m, k) ELSE "0"]
GeneralWins(f) ==
    GeneralAccepts(f[3], f[4], f[5], f[6], RMul(ToFloat(f[3]), ToFloat(f[4])), ToFloat(f[6]))
GeneralResult(f) ==
    Item(f[1], Strip(f[2]), ToFloat(f[3]), ToFloat(f[4]), ToFloat(f[5]), ToFloat(f[6]))

\* C1 as the spec states it: whenever a line with the shape of the general tier
\* and of a fuel tier gives an item, the item is the general tier's.
C1_GeneralShapeAlwaysWins ==
    (JustAppended /\ GeneralShape(LastLine) /\ FuelShape(LastLine)) => LastTier = "general"

C1Amended(tier, item, f) ==
    /\ (tier = "general") <=> GeneralWins(f)
    /\ tier = "general" => item = GeneralResult(f)
\* C1, amended: the item of a line with the shape of the general tier and of a
\* fuel tier is the general tier's result (its six fields) exactly when the
\* general tier's four numbers convert and pass its 10% check; otherwise the
\* item comes from a later tier.
C1_GeneralWinsWhenItsCheckPasses ==
    (JustAppended /\ GeneralShape(LastLine) /\ FuelShape(LastLine))
        => C1Amended(LastTier, LastItem,
                     GeneralFields(LastLine, ReMatch(general_pattern, LastLine, TRUE)))
C1_Witness ==
    JustAppended /\ GeneralShape(LastLine) /\ FuelShape(LastLine) /\ LastTier = "general"

\* the tier (1..4) that gives the item of a line when each tier is taken on
\* its own, 0 when none does
FirstSuccess(line) ==
    IF \E k \in 1..TierCount : Tier(k, line).out = "item"
    THEN MinOf({k \in 1..TierCount : Tier(k, line).out = "item"}) ELSE 0
Contribution(j) == {k \in 1..Len(src) : src[k].line = j}
ContributesFrom(j, t) ==
    /\ Cardinality(Contribution(j)) = 1
    /\ \A k \in Contribution(j) : src[k].tier = t.tier /\ items[k] = t.item
\* C2: once extract_line_items has been called, every line that is not skipped
\* has contributed exactly the item of the first tier that succeeds on it, and
\* nothing when no tier succeeds.
C2_FirstSuccessfulTierWins ==
    (pc = "done" /\ lines # <<>>) =>
        \A j \in 1..Len(lines) :
            ~Skipped(Strip(lines[j])) =>
                IF FirstSuccess(Strip(lines[j])) = 0 THEN Contribution(j) = {}
                ELSE ContributesFrom(j, Tier(FirstSuccess(Strip(lines[j])), Strip(lines[j])))

\* |total - quantity * price| < tolerance, on the numbers of an item
Off(item) == RAbs(RSub(item.total, RMul(item.quantity, item.price)))
TenPercentOfProduct(item) == RMul(RMul(item.quantity, item.price), Rat(1, 10))
OnePercentOfTotal(item) == RMul(item.total, Rat(1, 100))
WithinTierTolerance(tier, item) ==
    CASE tier = "general" -> RLt(Off(item), TenPercentOfProduct(item))
      [] tier \in {"express", "express_alt"} ->
             RLt(Off(item), OnePercentOfTotal(item)) \/ RLt(Off(item), Rat(1, 100))
      [] tier = "legacy" -> RLt(Off(item), OnePercentOfTotal(item))
\* no ordering of the three numbers of a legacy line passes the 1% check
NoOrderingFits(item) ==
    /\ ~RLt(Off(item), OnePercentOfTotal(item))
    /\ ~RLt(RAbs(RSub(item.quantity, RMul(item.price, item.total))),
            RMul(item.quantity, Rat(1, 100)))
    /\ ~RLt(RAbs(RSub(item.price, RMul(item.quantity, item.total))),
            RMul(item.price, Rat(1, 100)))

\* C3 as the spec states it: every item, of whichever tier, is within its
\* tier's tolerance when it is appended.
C3_EveryItemWithinTolerance == JustAppended => WithinTierTolerance(LastTier, LastItem)

\* C3, amended: an item of the general or of a fuel tier is within its tier's
\* tolerance when it is appended; an item of the legacy tier is within 1% of
\* its total, or none of the three orderings of its numbers is and it keeps the
\* order quantity, price, total.
C3_ItemWithinToleranceOrLegacyDefault ==
    JustAppended =>
        \/ WithinTierTolerance(LastTier, LastItem)
        \/ LastTier = "legacy" /\ NoOrderingFits(LastItem)
C3_Witness ==
    /\ JustAppended /\ LastTier = "legacy" /\ NoOrderingFits(LastItem)
    /\ Len(items) = 2 /\ src[1].tier = "general" /\ WithinTierTolerance("general", items[1])

\* C4: a conversion failure inside a tier never leaves extract_line_items:
\* the loop reaches the end of the lines.
C4_ConversionFailureNeverPropagates ==
    (pc = "done" /\ lines # <<>>) => (exc = "none" /\ i = Len(lines) + 1)

\* C5: parse_invoice_data returns a record for every text, with '' and 0 for
\* the header fields whose anchor is absent or not followed by a number.
C5_ParseAlwaysReturnsRecord ==
    (pc = "done" /\ text # "") =>
        /\ Len(invoice_data) = 1
        /\ ~Contains(text, "INV") => invoice_data[1].our_reference = ""
        /\ ~Contains(text, "-") => invoice_data[1].date = ""
        /\ ~Contains(text, "Total (Excl)") => invoice_data[1].total_excl = Zero
        /\ (\A d \in Digit : ~Contains(text, "Total (Incl) " \o d))
               => invoice_data[1].total_incl = Zero

\* C6: a document whose text is empty still gives one record in the batch,
\* with empty header fields and no items.
C6_EmptyTextStillYieldsRecord ==
    (pc = "done" /\ text = "") =>
        /\ Len(extracted_data) = 1
        /\ extracted_data[1] = InvoiceData(DocName, NoHeader, <<>>)

RECURSIVE SumOfTotalsAndTax(_)
SumOfTotalsAndTax(its) ==
    IF its = <<>> THEN Zero
    ELSE RAdd(RAdd(Head(its).total, Head(its).tax), SumOfTotalsAndTax(Tail(its)))
SlotColumn(slot, name) == "Item " \o ToString(slot) \o " " \o name
SlotHolds(row, slot, item) ==
    /\ row[SlotColumn(slot, "Code")] = <<"str", item.item_code>>
    /\ row[SlotColumn(slot, "Description")] = <<"str", item.description>>
    /\ row[SlotColumn(slot, "Quantity")] = <<"num", item.quantity>>
    /\ row[SlotColumn(slot, "Unit")] = <<"str", item.unit>>
    /\ row[SlotColumn(slot, "Price (Ex)")] = <<"num", item.price>>
    /\ row[SlotColumn(slot, "Tax")] = <<"num", item.tax>>
    /\ row[SlotColumn(slot, "Total Rand")] = <<"num", item.total>>
SlotEmpty(row, slot) ==
    \A name \in {"Code", "Description", "Quantity", "Unit", "Price (Ex)", "Tax", "Total Rand"} :
        row[SlotColumn(slot, name)] = <<"str", "">>
RowProjects(row, invoice) ==
    /\ \A slot \in 1..3 :
          IF slot <= Len(invoice.items) THEN SlotHolds(row, slot, invoice.items[slot])
          ELSE SlotEmpty(row, slot)
    /\ row["Total Expected"] = <<"num", SumOfTotalsAndTax(invoice.items)>>
\* C7: in the row of a record with k items, slots 1..min(k,3) hold the first
\* items in order, the slots after k are empty strings, and Total Expected is
\* the sum of total + tax over all k items.
C7_ProjectionKeepsFirstThree ==
    excel_data # <<>> =>
        /\ Len(excel_data) = Len(extracted_data)
        /\ \A n \in 1..Len(excel_data) : RowProjects(excel_data[n], extracted_data[n])
C7_Witness ==
    /\ Len(excel_data) = 2
    /\ Len(extracted_data[1].items) = 4
    /\ extracted_data[1].items[1] # extracted_data[1].items[2]
    /\ Len(extracted_data[2].items) = 1

Reconciles(d, invoice) ==
    /\ d.total_expected = SumOfTotalsAndTax(invoice.items)
    /\ d.discrepancy = RAbs(RSub(d.total_expected, invoice.total_incl))
    /\ d.total_incl = invoice.total_incl /\ d.items = invoice.items
    /\ IF invoice.total_incl.n > 0
       THEN /\ d.discrepancy_percent =
                   Rat(d.discrepancy.n * invoice.total_incl.d * 100,
                       d.discrepancy.d * invoice.total_incl.n)
            /\ d.discrepancy_percent.n >= 0
       ELSE d.discrepancy_percent = Zero
\* C8: for every record, /debug reports expected_total = sum of total + tax
\* over all items, discrepancy = |expected_total - declared_total_incl| and
\* discrepancy_percent = discrepancy / declared_total_incl * 100 (>= 0) when
\* the declared total is positive, 0 when it is 0, from the record as it is.
C8_ReconciliationIsDefined ==
    debug_summary.debug_data # <<>> =>
        /\ Len(debug_summary.debug_data) = Len(extracted_data)
        /\ \A n \in 1..Len(extracted_data) :
              Reconciles(debug_summary.debug_data[n], extracted_data[n])
C8_Witness ==
    /\ Len(debug_summary.debug_data) = 2
    /\ debug_summary.debug_data[1].total_incl = Rat(600, 1)
    /\ debug_summary.debug_data[1].discrepancy = Rat(50, 1)
    /\ debug_summary.debug_data[1].discrepancy_percent = Rat(25, 3)
    /\ debug_summary.debug_data[2].total_incl = Zero
    /\ debug_summary.debug_data[2].discrepancy_percent = Zero

\* C9: the items are in the order of the lines that made them, each made by
\* a line that is neither blank nor a column header line, and the lines are
\* those of the text in their order.
C9_ItemsInLineOrder ==
    /\ Len(items) = Len(src)
    /\ \A k \in 1..Len(src) :
          /\ src[k].line \in 1..Len(lines) /\ src[k].line < i
          /\ Strip(lines[src[k].line]) # ""
          /\ ~Contains(lines[src[k].line], "Item Code")
          /\ ~Contains(lines[src[k].line], "Item Description")
          /\ \A j \in 1..(k - 1) : src[j].line < src[k].line
    /\ lines # <<>> => Join(lines, Len(lines)) = text
    /\ JustAppended => LastItem = ProcessLine(lines[i - 1]).item
C9_Witness ==
    /\ Len(items) = 2 /\ items[1] # items[2]
    /\ src[1].line = 1 /\ src[2].line = 2

\* the upload (0: the earlier one) whose files the records of the batch are
Owns(r, files) ==
    \A k \in 1..Len(extracted_data) :
        /\ extracted_data[k].our_reference = RequestText(r)
        /\ \E f \in 1..Len(files) : files[f] = extracted_data[k].filename
Quiet == \A r \in Requests : req[r].pc \in {"idle", "done"}
\* C10: whatever the interleaving of the upload requests, the batch holds
\* records of the files of one upload only, and once all requests are
\* answered and one was processed, the batch is the whole batch of a
\* processed one.
C10_BatchIsOneUpload ==
    /\ \/ Owns(0, <<"a.pdf">>)
       \/ \E r \in Requests : Owns(r, req[r].uploaded_files)
    /\ (Quiet /\ \E r \in Requests : req[r].status = 200) =>
           \E r \in Requests :
               /\ req[r].status = 200 /\ Owns(r, req[r].uploaded_files)
               /\ Len(extracted_data) = Len(req[r].uploaded_files)

====
